---- MODULE Spec2Model ----
(***************************************************************************)
(* Model of the InlineEdit controller of                                   *)
(* changedetectionio/static/js/inline-edit.js: one edit session at a time  *)
(* (title text input, or a popover for watch words, interval and tags),    *)
(* optimistic updates, the pending-update map, the two socket result       *)
(* handlers and the pause/mute toggle buttons.                             *)
(*                                                                         *)
(* Text is a sequence of one-character strings, so that trim(), split()    *)
(* and join() are computed and not assumed.  The DOM is the part of the    *)
(* document the controller reads and patches: per cell its inner markup    *)
(* and classes, per row its data attributes, classes and buttons, the      *)
(* popover elements appended to the body, the toasts and the focus.        *)
(***************************************************************************)
EXTENDS Integers, Sequences, FiniteSets, TLC

\* ------------------------------------------------------------------ bounds
MaxLen == 2          \* longest text typed into the title input
MaxTimers == 2       \* pending 100 ms optimistic-restore timers
MaxInflight == 2     \* unanswered watch_update requests per watch
MaxOpsInflight == 1  \* unanswered watch_operation requests
MaxGestures == 4     \* clicks and key presses of the user in one run

\* ------------------------------------------------------------------- text
Chars == {"a", " "}
NL == "\n"

Str(n) == UNION {[1..k -> Chars] : k \in 0..n}

IsSpace(c) == c = " " \/ c = NL

RECURSIVE TrimLeft(_)
TrimLeft(s) ==
    IF s = <<>> THEN s
    ELSE IF IsSpace(Head(s)) THEN TrimLeft(Tail(s)) ELSE s

RECURSIVE TrimRight(_)
TrimRight(s) ==
    IF s = <<>> THEN s
    ELSE IF IsSpace(s[Len(s)]) THEN TrimRight(SubSeq(s, 1, Len(s) - 1)) ELSE s

\* String.prototype.trim
Trim(s) == TrimRight(TrimLeft(s))

\* String.prototype.split('\n'): always at least one element
RECURSIVE SplitNL(_)
SplitNL(s) ==
    IF \A i \in 1..Len(s) : s[i] # NL THEN <<s>>
    ELSE LET i == CHOOSE j \in 1..Len(s) :
                      s[j] = NL /\ \A k \in 1..(j - 1) : s[k] # NL
         IN <<SubSeq(s, 1, i - 1)>> \o SplitNL(SubSeq(s, i + 1, Len(s)))

\* Array.prototype.join('\n')
RECURSIVE JoinNL(_)
JoinNL(ws) ==
    IF ws = <<>> THEN <<>>
    ELSE IF Len(ws) = 1 THEN ws[1]
    ELSE ws[1] \o <<NL>> \o JoinNL(Tail(ws))

\* Array.prototype.filter(w => w) on an array of strings: drops the empty ones
RECURSIVE FilterNonEmpty(_)
FilterNonEmpty(ws) ==
    IF ws = <<>> THEN <<>>
    ELSE IF Head(ws) = <<>> THEN FilterNonEmpty(Tail(ws))
    ELSE <<Head(ws)>> \o FilterNonEmpty(Tail(ws))

\* value.split('\n').map(w => w.trim()) with no filter
ParseWordsKeepsEmpty(text) ==
    LET ls == SplitNL(text)
    IN [i \in 1..Len(ls) |-> Trim(ls[i])]

\* value.split('\n').map(w => w.trim()).filter(w => w)
ParseWords(text) ==
    LET ls == SplitNL(text)
    IN FilterNonEmpty([i \in 1..Len(ls) |-> Trim(ls[i])])

\* ------------------------------------------------------------- the document
Null == [null |-> TRUE]
\* document.activeElement: the title input, a control of the popover, a cell
\* that closePopover focused, or whatever else the user moved to
OnInput == [on |-> "input"]
OnPopover == [on |-> "popover"]
OnCell(c) == [on |-> "cell", cell |-> c]
Elsewhere == [on |-> "other"]

UUIDs == {"u1", "u2"}
PopoverFields == {"watch_words", "time_between_check", "tags"}
KnownFields == {"title"} \cup PopoverFields
\* "status" stands for an editable cell whose data-field names no editor
Fields == KnownFields \cup {"status"}
Cells == (UUIDs \X KnownFields) \cup {<<"u1", "status">>}

\* the tag filter bar: one anchor per tag, the active filter carries .active
TagBar == << [uuid |-> "t1", title |-> "news", active |-> FALSE],
             [uuid |-> "t2", title |-> "shop", active |-> FALSE],
             [uuid |-> "t3", title |-> "work", active |-> TRUE] >>

\* the options of the interval dropdown that carry a number of minutes
Presets == {1, 5, 15, 30, 60, 180, 360, 720, 1440}

ERR == <<"d", "i", "s", "k">>       \* a server-provided error message
NoMsg == <<>>                       \* error absent (or the empty string)
UpdateFailed == <<"U", "p", "d", "a", "t", "e", " ", "f", "a", "i", "l", "e", "d">>
OperationFailed == <<"O", "p", "e", "r", "a", "t", "i", "o", "n", " ", "f", "a", "i", "l", "e", "d">>

VARIABLES
    socket,          \* TRUE when the controller was constructed with a socket
    blurOnRemove,    \* TRUE when the browser fires blur on a focused element
                     \* that is removed from the document
    activeEdit,      \* this.activeEdit
    activePopover,   \* this.activePopover: 0 (null) or an index of docPopovers
    docPopovers,     \* the .edit-popover elements of document.body, in order
    pendingUpdates,  \* this.pendingUpdates: uuid -> entry, Null when absent
    html,            \* cell -> inner markup of the cell
    classes,         \* cell -> classes of the cell, among editing
    data,            \* uuid -> data attributes of the row
    rowClass,        \* uuid -> classes of the row among paused, notification_muted
    btnOp,           \* uuid -> data-op of the pause and the notify button
    status,          \* uuid -> status dot / text of the row
    focus,           \* document.activeElement: OnInput, OnPopover, OnCell(c)
                     \* or Elsewhere
    timers,          \* callbacks of saveTitle's setTimeout(.., 100), in order
    toasts,          \* texts of the toasts the last step showed (showError)
    flagged,         \* cells the last step flagged as saved (showSuccess)
    inflight,        \* uuid -> watch_update requests not yet answered
    opsInflight,     \* watch_operation requests not yet answered
    gestures,        \* clicks and key presses of the user so far
    out,             \* messages emitted by the last step
    last             \* the event the last step handled (history)

vars == <<socket, blurOnRemove, activeEdit, activePopover, docPopovers,
          pendingUpdates, html, classes, data, rowClass, btnOp, status, focus,
          timers, toasts, flagged, inflight, opsInflight, gestures, out, last>>

\* The mutable state as one record: a handler is an operator from the state
\* before to the state after, so that handlers compose as the calls do.
\* typed is the text in the title input when the event is handled.  A toast
\* and the save-success class are on the page for a fixed time (3000 ms,
\* 600 ms) and then removed by their own timers; the model records them in
\* the step that shows them.
Now ==
    [activeEdit |-> activeEdit, activePopover |-> activePopover,
     docPopovers |-> docPopovers, pendingUpdates |-> pendingUpdates,
     html |-> html, classes |-> classes, data |-> data, rowClass |-> rowClass,
     btnOp |-> btnOp, status |-> status, focus |-> focus, timers |-> timers,
     toasts |-> <<>>, flagged |-> {}, inflight |-> inflight,
     opsInflight |-> opsInflight, gestures |-> gestures, out |-> <<>>,
     typed |-> <<>>]

Becomes(s, ev) ==
    /\ activeEdit' = s.activeEdit
    /\ activePopover' = s.activePopover
    /\ docPopovers' = s.docPopovers
    /\ pendingUpdates' = s.pendingUpdates
    /\ html' = s.html
    /\ classes' = s.classes
    /\ data' = s.data
    /\ rowClass' = s.rowClass
    /\ btnOp' = s.btnOp
    /\ status' = s.status
    /\ focus' = s.focus
    /\ timers' = s.timers
    /\ toasts' = s.toasts
    /\ flagged' = s.flagged
    /\ inflight' = s.inflight
    /\ opsInflight' = s.opsInflight
    /\ gestures' = s.gestures
    /\ out' = s.out
    /\ last' = ev
    /\ UNCHANGED <<socket, blurOnRemove>>

\* ---------------------------------------------------------------- markup
TitleMarkup(t) == [k |-> "title", text |-> t]
InputMarkup == [k |-> "input"]
SavingMarkup == [k |-> "saving"]

\* cell.querySelector('.title-text') finds an element
HasTitleText(m) == m.k = "title"

\* socket.emit(event, payload)
Emit(s, msg) ==
    [s EXCEPT !.out = Append(@, msg),
              !.inflight = IF msg.event = "watch_update"
                           THEN [@ EXCEPT ![msg.uuid] = @ + 1] ELSE @,
              !.opsInflight = IF msg.event = "watch_operation" THEN @ + 1 ELSE @]

showSuccess(s, cell) == [s EXCEPT !.flagged = @ \cup {cell}]

showError(s, message) == [s EXCEPT !.toasts = Append(@, message)]

\* --------------------------------------------------- session and popover
RemoveAt(q, i) == SubSeq(q, 1, i - 1) \o SubSeq(q, i + 1, Len(q))

\* closePopover() that forgets the popover but leaves its element in the body
closePopoverKeepsElement(s) ==
    LET s1 == [s EXCEPT !.activePopover = 0]
        s2 == IF s1.activeEdit # Null
              THEN [s1 EXCEPT !.focus = OnCell(s1.activeEdit.cell)]
              ELSE s1
    IN [s2 EXCEPT !.activeEdit = Null]

\* closePopover(): removes the active popover element, focuses the edited
\* cell, ends the session
closePopover(s) ==
    LET s1 == IF s.activePopover # 0
              THEN [s EXCEPT !.docPopovers = RemoveAt(@, s.activePopover),
                             !.focus = IF @ = OnPopover THEN Elsewhere ELSE @,
                             !.activePopover = 0]
              ELSE s
        s2 == IF s1.activeEdit # Null
              THEN [s1 EXCEPT !.focus = OnCell(s1.activeEdit.cell)]
              ELSE s1
    IN [s2 EXCEPT !.activeEdit = Null]

\* a set that keeps the entry the map already holds
PendingSetKeepsOlder(s, uuid, entry) ==
    IF s.pendingUpdates[uuid] = Null
    THEN [s EXCEPT !.pendingUpdates[uuid] = entry]
    ELSE s

\* this.pendingUpdates.set(uuid, entry)
PendingSet(s, uuid, entry) ==
    [s EXCEPT !.pendingUpdates[uuid] = entry]

\* value || originalValue
OrElse(value, other) == IF value # <<>> THEN value ELSE other

RECURSIVE SetInnerHTML(_, _, _), saveHandler(_, _), saveTitle(_, _)

\* cell.innerHTML = markup.  Replacing the children of a cell removes a
\* title input in it; when that input has the focus, the focus is lost and,
\* in a browser that fires blur on removal, the input's blur listener
\* (saveHandler) runs before the new markup is in place.
SetInnerHTML(s, cell, markup) ==
    LET hadFocus == s.html[cell].k = "input" /\ s.focus = OnInput
        s1 == IF hadFocus THEN [s EXCEPT !.focus = Elsewhere] ELSE s
        s2 == IF hadFocus /\ blurOnRemove
              THEN saveHandler(s1, s.typed)
              ELSE s1
    IN [s2 EXCEPT !.html[cell] = markup]

\* editTitle.saveHandler, with input.value = raw
saveHandler(s, raw) ==
    IF s.activeEdit # Null THEN saveTitle(s, Trim(raw)) ELSE s

\* the callback saveTitle passes to setTimeout, and the same four statements
\* of its fallback branch; the second statement throws when the restored
\* markup has no .title-text element, and the rest is then not executed
RestoreTitle(s, cell, originalHTML, value, originalValue) ==
    LET s1 == SetInnerHTML(s, cell, originalHTML)
    IN IF ~HasTitleText(originalHTML) THEN s1
       ELSE [s1 EXCEPT !.html[cell] = TitleMarkup(OrElse(value, originalValue)),
                       !.data[cell[1]].watchTitle = value,
                       !.classes[cell] = @ \ {"editing"}]

\* saveTitle(value) without the test for an unchanged value
saveTitleAlwaysSends(s, value) ==
    IF s.activeEdit = Null THEN s
    ELSE
    LET cell == s.activeEdit.cell
        uuid == s.activeEdit.uuid
        originalHTML == s.activeEdit.originalHTML
        originalValue == s.activeEdit.originalValue
        s1 == SetInnerHTML(s, cell, SavingMarkup)
        s2 == PendingSet(s1, uuid,
                  [cell |-> cell, originalHTML |-> originalHTML,
                   originalValue |-> originalValue])
    IN IF socket
       THEN LET s3 == Emit(s2, [event |-> "watch_update", uuid |-> uuid,
                                updates |-> [title |-> value]])
                s4 == [s3 EXCEPT !.timers = Append(@,
                          [cell |-> cell, originalHTML |-> originalHTML,
                           value |-> value, originalValue |-> originalValue])]
            IN [s4 EXCEPT !.activeEdit = Null]
       ELSE LET s3 == RestoreTitle(s2, cell, originalHTML, value, originalValue)
            IN IF ~HasTitleText(originalHTML) THEN s3
               ELSE [showSuccess(s3, cell) EXCEPT !.activeEdit = Null]

\* saveTitle(value)
saveTitle(s, value) ==
    IF s.activeEdit = Null THEN s
    ELSE
    LET cell == s.activeEdit.cell
        uuid == s.activeEdit.uuid
        originalHTML == s.activeEdit.originalHTML
        originalValue == s.activeEdit.originalValue
    IN IF value = originalValue
       THEN \* no change, just restore
            LET s1 == SetInnerHTML(s, cell, originalHTML)
            IN [s1 EXCEPT !.classes[cell] = @ \ {"editing"},
                          !.activeEdit = Null]
       ELSE LET s1 == SetInnerHTML(s, cell, SavingMarkup)
                s2 == PendingSet(s1, uuid,
                          [cell |-> cell, originalHTML |-> originalHTML,
                           originalValue |-> originalValue])
            IN IF socket
               THEN LET s3 == Emit(s2, [event |-> "watch_update", uuid |-> uuid,
                                        updates |-> [title |-> value]])
                        s4 == [s3 EXCEPT !.timers = Append(@,
                                  [cell |-> cell, originalHTML |-> originalHTML,
                                   value |-> value,
                                   originalValue |-> originalValue])]
                    IN [s4 EXCEPT !.activeEdit = Null]
               ELSE IF ~HasTitleText(originalHTML)
                    THEN SetInnerHTML(s2, cell, originalHTML)
                    ELSE LET s3 == RestoreTitle(s2, cell, originalHTML, value,
                                                originalValue)
                             s4 == showSuccess(s3, cell)
                         IN [s4 EXCEPT !.activeEdit = Null]

\* cancelEdit()
cancelEdit(s) ==
    LET s1 == IF s.activeEdit # Null /\ "originalHTML" \in DOMAIN s.activeEdit
              THEN LET cell == s.activeEdit.cell
                       s0 == SetInnerHTML(s, cell, s.activeEdit.originalHTML)
                   IN [s0 EXCEPT !.classes[cell] = @ \ {"editing"}]
              ELSE s
    IN closePopover(s1)

\* editTitle(cell, uuid, row); reading titleSpan.textContent throws when the
\* row has no cached title and the cell shows no .title-text element
editTitle(s, cell, uuid) ==
    IF s.data[uuid].watchTitle = <<>> /\ ~HasTitleText(s.html[cell]) THEN s
    ELSE
    LET currentValue == IF s.data[uuid].watchTitle # <<>>
                        THEN s.data[uuid].watchTitle
                        ELSE Trim(s.html[cell].text)
        originalHTML == s.html[cell]
        s1 == [s EXCEPT !.classes[cell] = @ \cup {"editing"}]
        s2 == SetInnerHTML(s1, cell, InputMarkup)
    IN [s2 EXCEPT !.focus = OnInput,
                  !.activeEdit = [cell |-> cell, uuid |-> uuid, field |-> "title",
                                  originalHTML |-> originalHTML,
                                  originalValue |-> currentValue]]

\* createPopover(cell, content): the popover element is appended to the body
\* after any active one is closed; the result's last popover is the new one
createPopover(s, cell, form) ==
    LET s1 == closePopover(s)
    IN [s1 EXCEPT !.docPopovers = Append(@, [cell |-> cell, form |-> form])]

\* ------------------------------------------------------------ watch words
WordsMarkup(nb, nt) ==
    IF nb # 0 \/ nt # 0 THEN [k |-> "words", block |-> nb, trig |-> nt]
    ELSE [k |-> "nowords"]

\* editWatchWords(cell, uuid, row)
editWatchWords(s, cell, uuid) ==
    LET s1 == createPopover(s, cell,
                  [block_words |-> s.data[uuid].blockWords,
                   trigger_words |-> s.data[uuid].triggerWords])
    IN [s1 EXCEPT !.activeEdit = [cell |-> cell, uuid |-> uuid,
                                  field |-> "watch_words"],
                  !.activePopover = Len(s1.docPopovers),
                  !.focus = OnPopover]

\* saveWatchWords(uuid, blockWords, triggerWords, row, cell)
saveWatchWords(s, uuid, blockWords, triggerWords, cell) ==
    LET s1 == PendingSet(s, uuid, [cell |-> cell])
        s2 == IF socket
              THEN Emit(s1, [event |-> "watch_update", uuid |-> uuid,
                             updates |-> [block_words |-> blockWords,
                                          trigger_words |-> triggerWords]])
              ELSE s1
        s3 == [s2 EXCEPT !.data[uuid].blockWords = JoinNL(blockWords),
                         !.data[uuid].triggerWords = JoinNL(triggerWords),
                         !.html[cell] = WordsMarkup(Len(blockWords),
                                                    Len(triggerWords))]
    IN showSuccess(closePopover(s3), cell)

\* the .btn-save handler of editWatchWords
saveWordsClick(s, form, uuid, cell) ==
    saveWatchWords(s, uuid, ParseWords(form.block_words),
                   ParseWords(form.trigger_words), cell)

\* ---------------------------------------------------------------- interval
DefaultOpt == [opt |-> "default"]
CustomOpt == [opt |-> "custom"]
\* an option value, or a custom_minutes value, that is the decimal text of n
MinutesOpt(n) == [opt |-> "minutes", n |-> n]

\* parseInt of the decimal text of an integer
ParseInt(v) == v.n

\* a % b of JavaScript: the remainder has the sign of the dividend
JsRem(a, b) == IF a >= 0 THEN a % b ELSE 0 - ((0 - a) % b)

\* Math.floor(a / b) for b > 0
FloorDiv(a, b) == a \div b

\* the condition under which editInterval marks Custom... as selected and
\* shows the custom group
CustomSelected(useDefault, currentMinutes) ==
    ~useDefault /\ currentMinutes \notin Presets /\ currentMinutes > 0

\* the option the dropdown shows: the one marked selected, else the first
SelectedOpt(useDefault, currentMinutes) ==
    IF useDefault THEN DefaultOpt
    ELSE IF currentMinutes \in Presets THEN MinutesOpt(currentMinutes)
    ELSE IF CustomSelected(useDefault, currentMinutes) THEN CustomOpt
    ELSE DefaultOpt

\* editInterval(cell, uuid, row)
editInterval(s, cell, uuid) ==
    LET useDefault == s.data[uuid].intervalUseDefault
        hours == s.data[uuid].intervalHours
        minutes == s.data[uuid].intervalMinutes
        currentMinutes == hours * 60 + minutes
        s1 == createPopover(s, cell,
                  [interval |-> SelectedOpt(useDefault, currentMinutes),
                   customShown |-> CustomSelected(useDefault, currentMinutes),
                   custom_minutes |-> IF currentMinutes # 0 THEN currentMinutes
                                      ELSE 60])
    IN [s1 EXCEPT !.activeEdit = [cell |-> cell, uuid |-> uuid,
                                  field |-> "time_between_check"],
                  !.activePopover = Len(s1.docPopovers)]

\* the updates object with the whole number of minutes under minutes
IntervalUpdatesWholeMinutes(value) ==
    IF value = DefaultOpt THEN [time_between_check_use_default |-> TRUE]
    ELSE LET minutes == ParseInt(value)
         IN [time_between_check_use_default |-> FALSE,
             time_between_check |->
                 [weeks |-> 0, days |-> 0, hours |-> FloorDiv(minutes, 60),
                  minutes |-> minutes, seconds |-> 0]]

\* the updates object built by saveInterval
IntervalUpdates(value) ==
    IF value = DefaultOpt THEN [time_between_check_use_default |-> TRUE]
    ELSE LET minutes == ParseInt(value)
         IN [time_between_check_use_default |-> FALSE,
             time_between_check |->
                 [weeks |-> 0, days |-> 0, hours |-> FloorDiv(minutes, 60),
                  minutes |-> JsRem(minutes, 60), seconds |-> 0]]

\* the text saveInterval puts into .interval-text
IntervalMarkup(value) ==
    IF value = DefaultOpt THEN [k |-> "interval-default"]
    ELSE LET mins == ParseInt(value)
         IN IF mins >= 1440
            THEN [k |-> "interval", n |-> FloorDiv(mins, 1440), unit |-> "d"]
            ELSE IF mins >= 60
            THEN [k |-> "interval", n |-> FloorDiv(mins, 60), unit |-> "h"]
            ELSE [k |-> "interval", n |-> mins, unit |-> "m"]

\* saveInterval(uuid, value, row, cell)
saveInterval(s, uuid, value, cell) ==
    LET s1 == PendingSet(s, uuid, [cell |-> cell])
        s2 == IF socket
              THEN Emit(s1, [event |-> "watch_update", uuid |-> uuid,
                             updates |-> IntervalUpdates(value)])
              ELSE s1
        s3 == IF value = DefaultOpt
              THEN [s2 EXCEPT !.data[uuid].intervalUseDefault = TRUE]
              ELSE [s2 EXCEPT !.data[uuid].intervalUseDefault = FALSE,
                              !.data[uuid].intervalHours =
                                  FloorDiv(ParseInt(value), 60),
                              !.data[uuid].intervalMinutes =
                                  JsRem(ParseInt(value), 60)]
        s4 == [s3 EXCEPT !.html[cell] = IntervalMarkup(value)]
    IN showSuccess(closePopover(s4), cell)

\* the .btn-save handler of editInterval
saveIntervalClick(s, form, uuid, cell) ==
    LET value == IF form.interval = CustomOpt
                 THEN MinutesOpt(form.custom_minutes)
                 ELSE form.interval
    IN saveInterval(s, uuid, value, cell)

\* -------------------------------------------------------------------- tags
\* collectAllTags(): the tags of the filter bar that are not .active
allTags == SelectSeq(TagBar, LAMBDA b : ~b.active)

\* this.allTags.find(t => t.uuid === tagUuid), Null when there is none
FindTag(tagUuid) ==
    IF \E i \in 1..Len(allTags) : allTags[i].uuid = tagUuid
    THEN allTags[CHOOSE i \in 1..Len(allTags) :
                     allTags[i].uuid = tagUuid
                     /\ \A j \in 1..(i - 1) : allTags[j].uuid # tagUuid]
    ELSE Null

\* the badges saveTags renders for tagUuids
RECURSIVE Badges(_)
Badges(tagUuids) ==
    IF tagUuids = <<>> THEN <<>>
    ELSE LET tag == FindTag(Head(tagUuids))
         IN (IF tag # Null THEN <<tag.title>> ELSE <<>>) \o Badges(Tail(tagUuids))

\* the tags list without the placeholder
TagsMarkupNoPlaceholder(tagUuids) == [k |-> "tags", badges |-> Badges(tagUuids)]

\* the tags list saveTags renders: the badges, or the "-" placeholder
TagsMarkup(tagUuids) ==
    IF Badges(tagUuids) # <<>> THEN [k |-> "tags", badges |-> Badges(tagUuids)]
    ELSE [k |-> "notags"]

\* editTags(cell, uuid, row): one checkbox per catalog tag, checked when the
\* row has the tag
editTags(s, cell, uuid) ==
    LET currentTags == s.data[uuid].tags
        checked == {allTags[i].uuid : i \in {j \in 1..Len(allTags) :
                        \E n \in 1..Len(currentTags) :
                            currentTags[n] = allTags[j].uuid}}
        s1 == createPopover(s, cell, [checked |-> checked])
    IN [s1 EXCEPT !.activeEdit = [cell |-> cell, uuid |-> uuid, field |-> "tags"],
                  !.activePopover = Len(s1.docPopovers)]

\* saveTags(uuid, tagUuids, row, cell)
saveTags(s, uuid, tagUuids, cell) ==
    LET s1 == PendingSet(s, uuid, [cell |-> cell])
        s2 == IF socket
              THEN Emit(s1, [event |-> "watch_update", uuid |-> uuid,
                             updates |-> [tags |-> tagUuids]])
              ELSE s1
        s3 == [s2 EXCEPT !.data[uuid].tags = tagUuids,
                         !.html[cell] = TagsMarkup(tagUuids)]
    IN showSuccess(closePopover(s3), cell)

\* the .btn-save handler of editTags: the checked boxes in document order
saveTagsClick(s, form, uuid, cell) ==
    LET boxes == SelectSeq(allTags, LAMBDA t : t.uuid \in form.checked)
    IN saveTags(s, uuid, [i \in 1..Len(boxes) |-> boxes[i].uuid], cell)

\* --------------------------------------------------------------- dispatch
\* startEdit(cell)
startEdit(s, cell) ==
    LET field == cell[2]
        uuid == cell[1]
    IN CASE field = "title" -> editTitle(s, cell, uuid)
         [] field = "watch_words" -> editWatchWords(s, cell, uuid)
         [] field = "time_between_check" -> editInterval(s, cell, uuid)
         [] field = "tags" -> editTags(s, cell, uuid)
         [] OTHER -> s

\* ----------------------------------------------------------------- toggles
\* the button action sent as it is
SocketOpAsIs(op) == op

\* the operation sent for a button action: the backend handler toggles
SocketOp(op) ==
    IF op = "unpause" THEN "pause" ELSE IF op = "unmute" THEN "mute" ELSE op

\* toggleOperation(uuid, op, btn, row) whose unpause branch leaves the row's
\* class in place
toggleOperationKeepsPaused(s, uuid, op, btn) ==
    LET s1 == IF socket
              THEN Emit(s, [event |-> "watch_operation", op |-> SocketOp(op),
                            uuid |-> uuid])
              ELSE s
    IN CASE op = "pause" ->
              [s1 EXCEPT !.rowClass[uuid] = @ \cup {"paused"},
                         !.btnOp[uuid][btn] = "unpause",
                         !.status[uuid] = "paused"]
         [] op = "unpause" ->
              [s1 EXCEPT !.btnOp[uuid][btn] = "pause",
                         !.status[uuid] = "ok"]
         [] op = "mute" ->
              [s1 EXCEPT !.rowClass[uuid] = @ \cup {"notification_muted"},
                         !.btnOp[uuid][btn] = "unmute"]
         [] op = "unmute" ->
              [s1 EXCEPT !.rowClass[uuid] = @ \ {"notification_muted"},
                         !.btnOp[uuid][btn] = "mute"]
         [] OTHER -> s1

\* toggleOperation(uuid, op, btn, row)
toggleOperation(s, uuid, op, btn) ==
    LET s1 == IF socket
              THEN Emit(s, [event |-> "watch_operation", op |-> SocketOp(op),
                            uuid |-> uuid])
              ELSE s
    IN CASE op = "pause" ->
              [s1 EXCEPT !.rowClass[uuid] = @ \cup {"paused"},
                         !.btnOp[uuid][btn] = "unpause",
                         !.status[uuid] = "paused"]
         [] op = "unpause" ->
              [s1 EXCEPT !.rowClass[uuid] = @ \ {"paused"},
                         !.btnOp[uuid][btn] = "pause",
                         !.status[uuid] = "ok"]
         [] op = "mute" ->
              [s1 EXCEPT !.rowClass[uuid] = @ \cup {"notification_muted"},
                         !.btnOp[uuid][btn] = "unmute"]
         [] op = "unmute" ->
              [s1 EXCEPT !.rowClass[uuid] = @ \ {"notification_muted"},
                         !.btnOp[uuid][btn] = "mute"]
         [] OTHER -> s1

\* ------------------------------------------------------------ socket events
\* the update_result listener, keeping the pending entry of a failed update
onUpdateResultKeepsEntry(s, d) ==
    LET pending == s.pendingUpdates[d.uuid]
    IN IF d.success
       THEN IF pending # Null
            THEN [showSuccess(s, pending.cell) EXCEPT
                      !.pendingUpdates[d.uuid] = Null]
            ELSE s
       ELSE IF pending # Null
            THEN showError(s, OrElse(d.error, UpdateFailed))
            ELSE s

\* the update_result listener
onUpdateResult(s, d) ==
    LET pending == s.pendingUpdates[d.uuid]
    IN IF d.success
       THEN IF pending # Null
            THEN [showSuccess(s, pending.cell) EXCEPT
                      !.pendingUpdates[d.uuid] = Null]
            ELSE s
       ELSE IF pending # Null
            THEN [showError(s, OrElse(d.error, UpdateFailed)) EXCEPT
                      !.pendingUpdates[d.uuid] = Null]
            ELSE s

\* the operation_result listener
onOperationResult(s, d) ==
    IF ~d.success THEN showError(s, OrElse(d.error, OperationFailed)) ELSE s

\* ------------------------------------------------------------------- Init
Init ==
    /\ socket \in BOOLEAN
    /\ blurOnRemove \in BOOLEAN
    /\ activeEdit = Null
    /\ activePopover = 0
    /\ docPopovers = <<>>
    /\ pendingUpdates = [u \in UUIDs |-> Null]
    /\ data = [u \in UUIDs |->
                 [watchTitle |-> IF u = "u1" THEN <<"a">> ELSE <<>>,
                  blockWords |-> <<>>, triggerWords |-> <<>>,
                  intervalUseDefault |-> TRUE,
                  intervalHours |-> 0, intervalMinutes |-> 0,
                  tags |-> IF u = "u1" THEN <<"t1", "t3">> ELSE <<>>]]
    /\ html = [c \in Cells |->
                 CASE c[2] = "title" ->
                        TitleMarkup(IF c[1] = "u1" THEN <<"a">> ELSE <<"a", "a">>)
                   [] c[2] = "watch_words" -> WordsMarkup(0, 0)
                   [] c[2] = "time_between_check" -> IntervalMarkup(DefaultOpt)
                   [] c[2] = "tags" ->
                        IF c[1] = "u1"
                        THEN [k |-> "tags", badges |-> <<"news", "work">>]
                        ELSE [k |-> "notags"]
                   [] OTHER -> [k |-> "other"]]
    /\ classes = [c \in Cells |-> {}]
    /\ rowClass = [u \in UUIDs |-> IF u = "u1" THEN {} ELSE {"paused"}]
    /\ btnOp = [u \in UUIDs |->
                  [pause |-> IF u = "u1" THEN "pause" ELSE "unpause",
                   notify |-> "mute"]]
    /\ status = [u \in UUIDs |-> IF u = "u1" THEN "ok" ELSE "paused"]
    /\ focus = Elsewhere
    /\ timers = <<>>
    /\ toasts = <<>>
    /\ flagged = {}
    /\ inflight = [u \in UUIDs |-> 0]
    /\ opsInflight = 0
    /\ gestures = 0
    /\ out = <<>>
    /\ last = [op |-> "init"]

\* the bounds of the model, on the state a step leads to
Within(s) ==
    /\ Len(s.timers) <= MaxTimers
    /\ \A u \in UUIDs : s.inflight[u] <= MaxInflight
    /\ s.opsInflight <= MaxOpsInflight
    /\ s.gestures <= MaxGestures

\* a step of the page: a timer, a message of the socket
Step(s, ev) == Within(s) /\ Becomes(s, ev)

\* a step of the user
Gesture(s, ev) ==
    gestures < MaxGestures /\ Step([s EXCEPT !.gestures = @ + 1], ev)

\* the popover element the user sees
ThePopover == docPopovers[activePopover]

\* what the user can type or choose
TitleTexts == Str(MaxLen)
WordTexts == { <<"a">>, <<" ", "a", NL, NL, "a", "a", " ">> }
TagUuids == {allTags[i].uuid : i \in 1..Len(allTags)}
\* the options of the interval dropdown, and numbers for the custom input
IntervalOpts == {DefaultOpt, CustomOpt} \cup {MinutesOpt(p) : p \in Presets}
CustomValues == {0 - 5, 0, 7, 60, 61}
\* the few of them used where the interval is not the subject
SomeIntervalOpts == {DefaultOpt, CustomOpt, MinutesOpt(5)}
SomeCustomValues == {0}
IntervalCells == {c \in Cells : c[2] = "time_between_check"}
Errors == {NoMsg, ERR}

\* the cell whose title input has the focus
InputCell == CHOOSE c \in Cells : html[c].k = "input"

\* the state in which an event is handled while the title input holds raw
Typed(raw) == [Now EXCEPT !.typed = raw]

\* the step removes a focused title input in a browser that then fires blur,
\* so that the text of the input is read
ReadsInput(c) == blurOnRemove /\ focus = OnInput /\ html[c].k = "input"

\* ---------------------------------------------------------------- actions
\* an activation that starts an editor whether or not a session is active
ActivateUnguarded(c) ==
    /\ focus = OnInput => html[c].k = "input"
    /\ LET s0 == IF focus = OnInput THEN Now ELSE [Now EXCEPT !.focus = Elsewhere]
       IN Gesture(startEdit(s0, c), [op |-> "activate", cell |-> c])

\* click, or Enter / Space, on an editable cell (the two table listeners of
\* bindEvents); a pointer or keyboard activation elsewhere than in the
\* focused title input comes after that input's blur
Activate(c) ==
    /\ focus = OnInput => html[c].k = "input"
    /\ LET s0 == IF focus = OnInput THEN Now ELSE [Now EXCEPT !.focus = Elsewhere]
       IN Gesture(IF s0.activeEdit = Null THEN startEdit(s0, c) ELSE s0,
                  [op |-> "activate", cell |-> c])

\* Enter in the title input, which holds raw
EnterKey(raw) ==
    /\ focus = OnInput
    /\ Gesture(saveHandler(Typed(raw), raw),
               [op |-> "enter", cell |-> InputCell, value |-> Trim(raw)])

\* the title input, which holds raw, loses the focus
Blur(raw) ==
    /\ focus = OnInput
    /\ Gesture(saveHandler([Typed(raw) EXCEPT !.focus = Elsewhere], raw),
               [op |-> "blur", cell |-> InputCell, value |-> Trim(raw)])

\* Escape (the document listener; the popover's own listener calls the same)
Escape(raw) ==
    /\ activeEdit # Null
    /\ ReadsInput(activeEdit.cell) \/ raw = <<>>
    /\ Gesture(cancelEdit(Typed(raw)),
               [op |-> "escape", cell |-> activeEdit.cell, value |-> Trim(raw)])

\* the document click listener, for a click outside the popover, the
\* editable cells and the toggle buttons
OutsideClick ==
    /\ focus # OnInput
    /\ LET s0 == [Now EXCEPT !.focus = Elsewhere]
       IN Gesture(IF s0.activePopover # 0 THEN cancelEdit(s0) ELSE s0,
                  [op |-> "outside"])

\* the popover's Cancel button
CancelClick ==
    /\ activePopover # 0
    /\ Gesture(cancelEdit([Now EXCEPT !.focus = OnPopover]),
               [op |-> "cancel", cell |-> ThePopover.cell])

\* the Save button of the watch-words popover, whose textareas hold b and t
SaveWordsClick(b, t) ==
    /\ activePopover # 0
    /\ ThePopover.cell[2] = "watch_words"
    /\ Gesture(saveWordsClick([Now EXCEPT !.focus = OnPopover],
                   [block_words |-> b, trigger_words |-> t],
                   ThePopover.cell[1], ThePopover.cell),
               [op |-> "saveWords", cell |-> ThePopover.cell,
                block |-> b, trigger |-> t])

\* the Save button of the interval popover, whose dropdown shows opt and
\* whose custom-minutes input holds n
SaveIntervalClick(opt, n) ==
    /\ activePopover # 0
    /\ ThePopover.cell[2] = "time_between_check"
    /\ opt # CustomOpt => n = 0
    /\ Gesture(saveIntervalClick([Now EXCEPT !.focus = OnPopover],
                   [interval |-> opt, custom_minutes |-> n],
                   ThePopover.cell[1], ThePopover.cell),
               [op |-> "saveInterval", cell |-> ThePopover.cell,
                interval |-> opt, custom_minutes |-> n])

\* the Save button of the tags popover, whose ticked checkboxes are checked
SaveTagsClick(checked) ==
    /\ activePopover # 0
    /\ ThePopover.cell[2] = "tags"
    /\ Gesture(saveTagsClick([Now EXCEPT !.focus = OnPopover],
                   [checked |-> checked], ThePopover.cell[1], ThePopover.cell),
               [op |-> "saveTags", cell |-> ThePopover.cell, checked |-> checked])

\* click on the pause or the notify button of row u: the table listener
\* toggles, then the click reaches the document listener as a click outside
\* the popover and the editable cells
ToggleClick(u, btn) ==
    /\ focus # OnInput
    /\ LET s0 == [Now EXCEPT !.focus = Elsewhere]
           s1 == toggleOperation(s0, u, btnOp[u][btn], btn)
       IN Gesture(IF s1.activePopover # 0 THEN cancelEdit(s1) ELSE s1,
                  [op |-> "toggle", uuid |-> u, btn |-> btn,
                   action |-> btnOp[u][btn]])

\* the backend answers a watch_update
UpdateResult(u, success, error) ==
    /\ socket
    /\ inflight[u] > 0
    /\ Step(onUpdateResult([Now EXCEPT !.inflight[u] = @ - 1],
                           [success |-> success, uuid |-> u, error |-> error]),
            [op |-> "update_result", success |-> success, uuid |-> u,
             error |-> error])

\* the backend answers a watch_operation
OperationResult(success, error) ==
    /\ socket
    /\ opsInflight > 0
    /\ Step(onOperationResult([Now EXCEPT !.opsInflight = @ - 1],
                              [success |-> success, error |-> error]),
            [op |-> "operation_result", success |-> success, error |-> error])

\* the oldest 100 ms timer of saveTitle fires, while the title input, if
\* there is one, holds raw
TitleTimer(raw) ==
    /\ timers # <<>>
    /\ ReadsInput(Head(timers).cell) \/ raw = <<>>
    /\ LET t == Head(timers)
       IN Step(RestoreTitle([Typed(raw) EXCEPT !.timers = Tail(@)], t.cell,
                            t.originalHTML, t.value, t.originalValue),
               [op |-> "timer", cell |-> t.cell, value |-> t.value,
                originalHTML |-> t.originalHTML])

\* the socket and the timers
Async ==
    \/ \E u \in UUIDs, success \in BOOLEAN, error \in Errors :
           UpdateResult(u, success, error)
    \/ \E success \in BOOLEAN, error \in Errors : OperationResult(success, error)
    \/ \E raw \in TitleTexts : TitleTimer(raw)

\* every listener of the controller, on every cell and button of the table
Next ==
    \/ \E c \in Cells : Activate(c)
    \/ \E raw \in TitleTexts : EnterKey(raw)
    \/ \E raw \in TitleTexts : Blur(raw)
    \/ \E raw \in TitleTexts : Escape(raw)
    \/ OutsideClick
    \/ CancelClick
    \/ \E b \in WordTexts, t \in WordTexts : SaveWordsClick(b, t)
    \/ \E opt \in SomeIntervalOpts, n \in SomeCustomValues :
           SaveIntervalClick(opt, n)
    \/ \E checked \in SUBSET TagUuids : SaveTagsClick(checked)
    \/ \E u \in UUIDs, btn \in {"pause", "notify"} : ToggleClick(u, btn)
    \/ Async

Spec == Init /\ [][Next]_vars

\* the interval editor alone, with every option of its dropdown
NextInterval ==
    \/ \E c \in IntervalCells : Activate(c)
    \/ Escape(<<>>)
    \/ OutsideClick
    \/ CancelClick
    \/ \E opt \in IntervalOpts, n \in CustomValues : SaveIntervalClick(opt, n)
    \/ \E u \in UUIDs, success \in BOOLEAN, error \in Errors :
           UpdateResult(u, success, error)

SpecInterval == Init /\ [][NextInterval]_vars

\* the title and the tags editors alone, with the socket and the timers
CommitCells == {c \in Cells : c[2] \in {"title", "tags"}}

NextCommits ==
    \/ \E c \in CommitCells : Activate(c)
    \/ \E raw \in TitleTexts : EnterKey(raw)
    \/ \E raw \in TitleTexts : Blur(raw)
    \/ \E raw \in TitleTexts : Escape(raw)
    \/ \E checked \in SUBSET TagUuids : SaveTagsClick(checked)
    \/ \E u \in UUIDs, success \in BOOLEAN, error \in Errors :
           UpdateResult(u, success, error)
    \/ \E raw \in TitleTexts : TitleTimer(raw)

\* the channel delivers an update_result for every watch_update emitted
SpecDelivered ==
    /\ Init
    /\ [][NextCommits]_vars
    /\ \A u \in UUIDs :
           WF_vars(\E success \in BOOLEAN, error \in Errors :
                       UpdateResult(u, success, error))

\* every 100 ms timer of saveTitle fires
SpecTimers ==
    /\ Init
    /\ [][NextCommits]_vars
    /\ WF_vars(\E raw \in TitleTexts : TitleTimer(raw))

\* what the user can type into a textarea of the watch-words editor
MaxWordsLen == 3
WordChars == {"a", "b", " ", NL}
AllWordTexts == UNION {[1..k -> WordChars] : k \in 0..MaxWordsLen}
WordCell == <<"u1", "watch_words">>

\* the watch-words editor of one row alone, with every text of its textareas
NextWords ==
    \/ Activate(WordCell)
    \/ CancelClick
    \/ \E b \in AllWordTexts, t \in WordTexts : SaveWordsClick(b, t)
    \/ \E b \in WordTexts, t \in AllWordTexts : SaveWordsClick(b, t)
    \/ \E success \in BOOLEAN, error \in Errors :
           UpdateResult(WordCell[1], success, error)

SpecWords == Init /\ [][NextWords]_vars

\* ============================================================== properties
\* C1: in every reachable state at most one popover element is in the
\* document, it is there exactly when this.activePopover is set, and then a
\* session for a popover field is active on the cell the popover belongs to
\* (never a title session, never no session).
C1_OneSessionOnePopover ==
    /\ Len(docPopovers) <= 1
    /\ (activePopover # 0) <=> (docPopovers # <<>>)
    /\ docPopovers # <<>> =>
          /\ activePopover = 1
          /\ activeEdit # Null
          /\ activeEdit.field \in PopoverFields
          /\ activeEdit.cell = docPopovers[1].cell

\* a popover is open after an earlier popover edit was saved and closed
C1_Witness ==
    /\ Len(docPopovers) = 1
    /\ last.op = "activate"
    /\ \E u \in UUIDs : /\ pendingUpdates[u] # Null
                        /\ pendingUpdates[u].cell[2] \in PopoverFields

\* C2: a commit (Enter or blur) of a title edit whose trimmed text equals the
\* original value emits nothing, records no pending entry, ends the session
\* and leaves the cell with its pre-edit markup.
C2_UnchangedTitleDiscarded ==
    [][(/\ focus = OnInput
        /\ activeEdit # Null
        /\ last'.op \in {"enter", "blur"}
        /\ last'.value = activeEdit.originalValue)
       => /\ out' = <<>>
          /\ inflight' = inflight
          /\ pendingUpdates' = pendingUpdates
          /\ timers' = timers
          /\ data' = data
          /\ activeEdit' = Null
          /\ html'[activeEdit.cell] = activeEdit.originalHTML]_vars

\* a title commit has just ended the session without sending or applying
\* anything
C2_Witness ==
    /\ last.op \in {"enter", "blur"}
    /\ last.value = data[last.cell[1]].watchTitle
    /\ out = <<>>
    /\ flagged = {}
    /\ activeEdit = Null
    /\ html[last.cell].k = "title"

\* the watch_update messages among msgs that carry a title
TitleUpdates(msgs) ==
    {i \in 1..Len(msgs) : /\ msgs[i].event = "watch_update"
                          /\ "title" \in DOMAIN msgs[i].updates}

\* C3: a commit of a title edit with an empty text, when the original value
\* is not empty, falls back to the prior value: no watch_update with an empty
\* title is emitted and the row's cached title is not emptied.
C3_EmptyTitleNotSent ==
    [][(/\ focus = OnInput
        /\ activeEdit # Null
        /\ last'.op \in {"enter", "blur"}
        /\ last'.value = <<>>
        /\ activeEdit.originalValue # <<>>)
       => /\ \A i \in TitleUpdates(out') : out'[i].updates.title # <<>>
          /\ data'[activeEdit.uuid].watchTitle = data[activeEdit.uuid].watchTitle]_vars

\* C4: with a socket, a commit of a title edit whose text v is not empty and
\* differs from the original emits watch_update {uuid, {title: v}} for the
\* row, records a pending entry for the row and ends the session; and when
\* the timer of such a commit fires, the cell shows title markup with the
\* text v and the row's cached title is v.
C4_ChangedTitleSentThenShown ==
    [][/\ (/\ socket
           /\ focus = OnInput
           /\ activeEdit # Null
           /\ last'.op \in {"enter", "blur"}
           /\ last'.value # <<>>
           /\ last'.value # activeEdit.originalValue)
          => /\ out' # <<>>
             /\ \A i \in 1..Len(out') :
                    out'[i] = [event |-> "watch_update", uuid |-> last'.cell[1],
                               updates |-> [title |-> last'.value]]
             /\ pendingUpdates'[last'.cell[1]] # Null
             /\ pendingUpdates'[last'.cell[1]].cell = last'.cell
             /\ activeEdit' = Null
       /\ (last'.op = "timer" /\ timers # <<>> /\ last'.value # <<>>)
          => /\ html'[last'.cell] = TitleMarkup(last'.value)
             /\ data'[last'.cell[1]].watchTitle = last'.value]_vars

\* C5: every update_result with success = false shows a toast with the
\* server's message, or with 'Update failed' when there is none.
C5_EveryFailureToasted ==
    [][(last'.op = "update_result" /\ ~last'.success)
       => toasts' = <<IF last'.error # NoMsg THEN last'.error
                      ELSE UpdateFailed>>]_vars

\* C6: an update_result with success = false for a uuid that has a pending
\* entry shows one toast, with the server's message when there is one,
\* removes that entry and no other, and reverts nothing: every cell's markup
\* and classes and every row's data attributes are as before.
C6_FailureToastedNotReverted ==
    [][(/\ last'.op = "update_result"
        /\ ~last'.success
        /\ pendingUpdates[last'.uuid] # Null)
       => /\ Len(toasts') = 1
          /\ last'.error # NoMsg => toasts'[1] = last'.error
          /\ last'.error = NoMsg => toasts'[1] = UpdateFailed
          /\ pendingUpdates' = [pendingUpdates EXCEPT ![last'.uuid] = Null]
          /\ html' = html
          /\ classes' = classes
          /\ data' = data
          /\ flagged' = {}]_vars

\* a failure with the server's message has just been shown for a row whose
\* optimistic change is on the page
C6_Witness ==
    /\ last.op = "update_result"
    /\ ~last.success
    /\ last.error = ERR
    /\ toasts = <<ERR>>
    /\ pendingUpdates[last.uuid] = Null
    /\ data[last.uuid] # [watchTitle |-> IF last.uuid = "u1" THEN <<"a">> ELSE <<>>,
                          blockWords |-> <<>>, triggerWords |-> <<>>,
                          intervalUseDefault |-> TRUE,
                          intervalHours |-> 0, intervalMinutes |-> 0,
                          tags |-> IF last.uuid = "u1" THEN <<"t1", "t3">> ELSE <<>>]

\* C7: every watch_operation is emitted by a toggle click, carries the uuid
\* of the clicked button's row and the op pause for the button actions pause
\* and unpause, mute for mute and unmute; with a socket a toggle click emits
\* exactly one.
C7_ToggleOpNormalized ==
    /\ \A i \in 1..Len(out) :
          out[i].event = "watch_operation" =>
              /\ last.op = "toggle"
              /\ out[i].uuid = last.uuid
              /\ out[i].op \in {"pause", "mute"}
              /\ out[i].op = "pause" <=> last.action \in {"pause", "unpause"}
              /\ out[i].op = "mute" <=> last.action \in {"mute", "unmute"}
    /\ (last.op = "toggle" /\ socket) =>
          /\ Len(out) = 1
          /\ out[1].event = "watch_operation"

\* an unpause or an unmute button has just been clicked and its operation sent
C7_Witness ==
    /\ last.op = "toggle"
    /\ last.action \in {"unpause", "unmute"}
    /\ out # <<>>

Opposite(action) ==
    CASE action = "pause" -> "unpause"
      [] action = "unpause" -> "pause"
      [] action = "mute" -> "unmute"
      [] action = "unmute" -> "mute"

\* the row's class and the button's action agree
Consistent(u) ==
    /\ "paused" \in rowClass[u] <=> btnOp[u].pause = "unpause"
    /\ "notification_muted" \in rowClass[u] <=> btnOp[u].notify = "unmute"
    /\ btnOp[u].pause \in {"pause", "unpause"}
    /\ btnOp[u].notify \in {"mute", "unmute"}

\* a toggle click flips the clicked button and nothing else of the rows
ToggleFlips ==
    last'.op = "toggle" =>
        /\ btnOp[last'.uuid][last'.btn] = last'.action
        /\ btnOp' = [btnOp EXCEPT ![last'.uuid][last'.btn] = Opposite(last'.action)]
        /\ "paused" \in rowClass'[last'.uuid] <=>
               IF last'.btn = "pause" THEN last'.action = "pause"
               ELSE "paused" \in rowClass[last'.uuid]
        /\ "notification_muted" \in rowClass'[last'.uuid] <=>
               IF last'.btn = "notify" THEN last'.action = "mute"
               ELSE "notification_muted" \in rowClass[last'.uuid]
        /\ \A u \in UUIDs \ {last'.uuid} : rowClass'[u] = rowClass[u]

\* C8 as stated: a toggle click flips the button and the row's class, the
\* rows stay consistent, and no toggle click and no operation_result changes
\* the pending-update map or the edit session.
C8_ToggleLeavesSession ==
    [][/\ ToggleFlips
       /\ \A u \in UUIDs : Consistent(u)'
       /\ last'.op \in {"toggle", "operation_result"} =>
              /\ pendingUpdates' = pendingUpdates
              /\ activeEdit' = activeEdit]_vars

\* C8 as amended: as C8, but a toggle click is also a click outside the
\* popover, so it cancels the session of an open popover (the popover is
\* removed, the session ends); every other session is left as it is.
C8_ToggleCancelsOnlyPopover ==
    [][/\ ToggleFlips
       /\ \A u \in UUIDs : Consistent(u)'
       /\ last'.op \in {"toggle", "operation_result"} =>
              /\ pendingUpdates' = pendingUpdates
              /\ inflight' = inflight
              /\ html' = html
              /\ data' = data
              /\ \/ activeEdit' = activeEdit /\ docPopovers' = docPopovers
                 \/ /\ last'.op = "toggle"
                    /\ activePopover # 0
                    /\ activeEdit' = Null
                    /\ docPopovers' = <<>>]_vars

\* a pause button has just been clicked while an update of its row is pending
C8_Witness ==
    /\ last.op = "toggle"
    /\ last.action = "pause"
    /\ "paused" \in rowClass[last.uuid]
    /\ btnOp[last.uuid].pause = "unpause"
    /\ pendingUpdates[last.uuid] # Null

\* C9: with a socket, saving the interval editor with a preset of v minutes
\* emits exactly one watch_update for the row whose updates are
\* {time_between_check_use_default: false, time_between_check: {weeks: 0,
\* days: 0, hours: floor(v / 60), minutes: v mod 60, seconds: 0}}, and saving
\* it with Use Default emits updates {time_between_check_use_default: true}.
C9_PresetPayload ==
    (last.op = "saveInterval" /\ socket /\ last.interval # CustomOpt) =>
        /\ Len(out) = 1
        /\ out[1].event = "watch_update"
        /\ out[1].uuid = last.cell[1]
        /\ last.interval = DefaultOpt =>
               out[1].updates = [time_between_check_use_default |-> TRUE]
        /\ \A v \in Presets :
               last.interval = MinutesOpt(v) =>
                   out[1].updates =
                       [time_between_check_use_default |-> FALSE,
                        time_between_check |->
                            [weeks |-> 0, days |-> 0, hours |-> v \div 60,
                             minutes |-> v % 60, seconds |-> 0]]

\* the preset of 3 hours has just been saved
C9_Witness ==
    /\ last.op = "saveInterval"
    /\ last.interval = MinutesOpt(180)
    /\ socket
    /\ out # <<>>

\* C10: when the interval editor opens on a row whose stored interval is
\* not use-default and whose minutes (hours * 60 + minutes) are no preset,
\* Custom... is selected and the custom-minutes input is shown.
C10_NonPresetShownAsCustom ==
    (/\ last.op = "activate"
     /\ activePopover # 0
     /\ ThePopover.cell[2] = "time_between_check"
     /\ ~data[ThePopover.cell[1]].intervalUseDefault
     /\ (data[ThePopover.cell[1]].intervalHours * 60
           + data[ThePopover.cell[1]].intervalMinutes) \notin Presets)
    => /\ ThePopover.form.interval = CustomOpt
       /\ ThePopover.form.customShown

\* the catalog entries whose checkbox is ticked, in the order of the boxes
CheckedEntries(T) == SelectSeq(TagBar, LAMBDA b : ~b.active /\ b.uuid \in T)

\* tag identifiers a row can carry: of the catalog, of the active filter, and
\* one of no tag of the filter bar
SomeTagIds == {"t1", "t2", "t3", "tx"}

\* C11: saving the tag editor with the set T of boxes ticked stores T, in
\* catalog order, as the row's cached tags, shows one badge per tag of T
\* with its catalog label, or the "-" placeholder when T is empty, and with
\* a socket emits exactly one watch_update whose updates.tags is T in
\* catalog order.  The badges rendered for any identifiers are the catalog
\* labels of those in the catalog, the others being omitted.
C11_TagsSavedAsChecked ==
    last.op = "saveTags" =>
        LET entries == CheckedEntries(last.checked)
            T == [i \in 1..Len(entries) |-> entries[i].uuid]
            labels == [i \in 1..Len(entries) |-> entries[i].title]
        IN /\ data[last.cell[1]].tags = T
           /\ html[last.cell] = IF T = <<>> THEN [k |-> "notags"]
                                ELSE [k |-> "tags", badges |-> labels]
           /\ socket => out = <<[event |-> "watch_update", uuid |-> last.cell[1],
                                 updates |-> [tags |-> T]]>>
           /\ ~socket => out = <<>>
           /\ \A a \in SomeTagIds, b \in SomeTagIds :
                  LET label(x) == IF x = "t1" THEN <<"news">>
                                  ELSE IF x = "t2" THEN <<"shop">> ELSE <<>>
                  IN Badges(<<a, b>>) = label(a) \o label(b)

\* both catalog tags have just been saved, and sent, for a row
C11_Witness ==
    /\ last.op = "saveTags"
    /\ last.checked = {"t1", "t2"}
    /\ socket
    /\ out # <<>>
    /\ html[last.cell] = [k |-> "tags", badges |-> <<"news", "shop">>]

\* no box ticked: the placeholder is shown
C11_WitnessEmpty ==
    /\ last.op = "saveTags"
    /\ last.checked = {}
    /\ html[last.cell] = [k |-> "notags"]

\* the lines of text that hold a word, each as <<p, q>>: the positions of
\* the first and of the last character of the line that is no whitespace
WordSpans(text) ==
    {sp \in (1..Len(text)) \X (1..Len(text)) :
        /\ sp[1] <= sp[2]
        /\ ~IsSpace(text[sp[1]]) /\ ~IsSpace(text[sp[2]])
        /\ \A i \in sp[1]..sp[2] : text[i] # NL
        /\ \A i \in 1..(sp[1] - 1) :
               IsSpace(text[i]) \/ \E j \in (i + 1)..(sp[1] - 1) : text[j] = NL
        /\ \A i \in (sp[2] + 1)..Len(text) :
               IsSpace(text[i]) \/ \E j \in (sp[2] + 1)..(i - 1) : text[j] = NL}

\* ws holds the words of text: one per line that has a word, in the order of
\* the lines, each from the first to the last character that is no whitespace
IsWordsOf(ws, text) ==
    /\ Len(ws) = Cardinality(WordSpans(text))
    /\ \A sp \in WordSpans(text) :
           ws[1 + Cardinality({o \in WordSpans(text) : o[1] < sp[1]})]
               = SubSeq(text, sp[1], sp[2])

\* C12: the block_words and trigger_words arrays emitted on save are the
\* lines of the two textareas, in order, each trimmed of surrounding
\* whitespace, without the lines that are empty after trimming; no element is
\* empty or begins or ends with whitespace.
C12_WordsTrimmedNonEmpty ==
    (last.op = "saveWords" /\ socket) =>
        /\ Len(out) = 1
        /\ out[1].event = "watch_update"
        /\ out[1].uuid = last.cell[1]
        /\ DOMAIN out[1].updates = {"block_words", "trigger_words"}
        /\ IsWordsOf(out[1].updates.block_words, last.block)
        /\ IsWordsOf(out[1].updates.trigger_words, last.trigger)
        /\ \A ws \in {out[1].updates.block_words, out[1].updates.trigger_words} :
               \A i \in 1..Len(ws) :
                   /\ ws[i] # <<>>
                   /\ ~IsSpace(ws[i][1])
                   /\ ~IsSpace(ws[i][Len(ws[i])])

\* a text with a blank line and a padded word has just been saved as two words
C12_Witness ==
    /\ last.op = "saveWords"
    /\ socket
    /\ last.block = <<"b", NL, NL>> 
    /\ last.trigger = <<" ", "a", NL, NL, "a", "a", " ">>
    /\ out # <<>>
    /\ out[1].updates.block_words = << <<"b">> >>
    /\ out[1].updates.trigger_words = << <<"a">>, <<"a", "a">> >>

\* C13: an activation (click, Enter or Space) of an editable cell while a
\* session is active changes neither the session, nor the popover, nor the
\* content of any cell, nor the data attributes of the rows, nor the
\* pending-update map, and emits nothing.
C13_ActivationSuppressed ==
    [][(last'.op = "activate" /\ activeEdit # Null) =>
          /\ activeEdit' = activeEdit
          /\ activePopover' = activePopover
          /\ docPopovers' = docPopovers
          /\ html' = html
          /\ classes' = classes
          /\ data' = data
          /\ pendingUpdates' = pendingUpdates
          /\ inflight' = inflight
          /\ timers' = timers
          /\ out' = <<>>]_vars

\* a cell of another row has just been activated while a popover is open
C13_Witness ==
    /\ last.op = "activate"
    /\ activeEdit # Null
    /\ activePopover # 0
    /\ last.cell # activeEdit.cell
    /\ last.cell[1] # activeEdit.uuid

\* the cell of the focused title input has just been activated
C13_WitnessTitle ==
    /\ last.op = "activate"
    /\ activeEdit # Null
    /\ activeEdit.field = "title"
    /\ last.cell = activeEdit.cell
    /\ gestures >= 2

\* C14: an activation, when no session is active, of a cell whose field is
\* title, watch_words, time_between_check or tags opens a session whose field
\* and uuid are those of the cell and of its row; an activation of a cell
\* with any other field opens no session and no popover, emits nothing and
\* leaves the cells as they are.
C14_ActivationOpensSession ==
    [][(last'.op = "activate" /\ activeEdit = Null) =>
          IF last'.cell[2] \in KnownFields
          THEN /\ activeEdit' # Null
               /\ activeEdit'.field = last'.cell[2]
               /\ activeEdit'.uuid = last'.cell[1]
               /\ activeEdit'.cell = last'.cell
          ELSE /\ activeEdit' = Null
               /\ activePopover' = 0
               /\ docPopovers' = docPopovers
               /\ html' = html
               /\ classes' = classes
               /\ out' = <<>>]_vars

\* C15: every step that ends an edit session (a title save, a popover save,
\* a cancel, Escape, an outside click) leaves the keyboard focus on the cell
\* the session was opened on.
C15_FocusRestoredOnClose ==
    [][(activeEdit # Null /\ activeEdit' = Null) =>
          focus' = OnCell(activeEdit.cell)]_vars

\* C16: cancelling (Escape in a title edit; the Cancel button, Escape or an
\* outside click with a popover) ends the session, removes the popover,
\* emits nothing, adds no pending-update entry, leaves the data attributes
\* of the rows as they are and leaves every cell with the markup it had
\* before the editor was opened.
C16_CancelDiscards ==
    [][(/\ last'.op \in {"escape", "cancel", "outside"}
        /\ activeEdit # Null
        /\ last'.op = "outside" => activePopover # 0) =>
          /\ activeEdit' = Null
          /\ activePopover' = 0
          /\ docPopovers' = <<>>
          /\ out' = <<>>
          /\ pendingUpdates' = pendingUpdates
          /\ data' = data
          /\ timers' = timers
          /\ html' = IF activeEdit.field = "title"
                     THEN [html EXCEPT ![activeEdit.cell] = activeEdit.originalHTML]
                     ELSE html]_vars

\* C17: an entry of the pending-update map tracks a change in flight: when
\* the map holds an entry for uuid, a watch_update for uuid has been emitted
\* and not yet answered, with or without a socket.
C17_PendingIsInFlight ==
    \A u \in UUIDs : pendingUpdates[u] # Null => inflight[u] > 0

\* with a socket, an entry of the map has an unanswered watch_update
PendingIsInFlightWithSocket ==
    socket => \A u \in UUIDs : pendingUpdates[u] # Null => inflight[u] > 0

\* C18: without a socket, a commit of a title edit whose text v differs from
\* the original value emits nothing and starts no timer, leaves the cell
\* with its original markup showing v, the cached title v, the cell flagged
\* as saved and no session.
C18_LocalTitleSave ==
    [][(/\ ~socket
        /\ last'.op \in {"enter", "blur"}
        /\ activeEdit # Null
        /\ activeEdit.field = "title"
        /\ last'.value # activeEdit.originalValue) =>
          /\ out' = <<>>
          /\ timers' = timers
          /\ html' = [html EXCEPT ![activeEdit.cell] = TitleMarkup(last'.value)]
          /\ data' = [data EXCEPT ![activeEdit.uuid].watchTitle = last'.value]
          /\ classes'[activeEdit.cell] = {}
          /\ activeEdit.cell \in flagged'
          /\ activeEdit' = Null]_vars

\* the local save of a text that is not empty
LocalTitleSaveNonEmpty ==
    [][last'.op \in {"enter", "blur"} /\ last'.value # <<>> => C18_LocalTitleSave!1]_vars

\* the step committed an edit of the cell last'.cell
Commits ==
    \/ last'.op \in {"saveWords", "saveInterval", "saveTags"}
    \/ /\ last'.op \in {"enter", "blur", "escape", "timer"}
       /\ activeEdit # Null
       /\ activeEdit.field = "title"
       /\ last'.cell = activeEdit.cell

\* C19: the pending-update map is keyed by uuid alone.  A commit for uuid
\* replaces the entry of uuid, if any, by one with the newer commit's cell; a
\* popover save always commits.  An update_result for uuid removes the entry
\* of uuid and changes no other entry; when the map holds no entry for uuid
\* it changes nothing and flags no cell.  No other step changes the map.
C19_PendingKeyedByUuid ==
    [][/\ \A u \in UUIDs :
              pendingUpdates'[u] # pendingUpdates[u] =>
                  \/ /\ last'.op = "update_result"
                     /\ last'.uuid = u
                     /\ pendingUpdates'[u] = Null
                  \/ /\ Commits
                     /\ last'.cell[1] = u
                     /\ pendingUpdates'[u] # Null
                     /\ pendingUpdates'[u].cell = last'.cell
       /\ last'.op \in {"saveWords", "saveInterval", "saveTags"} =>
              pendingUpdates' = [pendingUpdates EXCEPT ![last'.cell[1]] =
                                     [cell |-> last'.cell]]
       /\ last'.op = "update_result" =>
              /\ pendingUpdates' = [pendingUpdates EXCEPT ![last'.uuid] = Null]
              /\ pendingUpdates[last'.uuid] = Null =>
                     /\ flagged' = {}
                     /\ toasts' = <<>>
                     /\ html' = html
                     /\ data' = data
              /\ (pendingUpdates[last'.uuid] # Null /\ last'.success) =>
                     flagged' = {pendingUpdates[last'.uuid].cell}]_vars

\* a second commit for a row replaced the entry of the first while both are
\* unanswered
C19_Witness ==
    /\ last.op = "saveTags"
    /\ socket
    /\ inflight[last.cell[1]] = 2
    /\ pendingUpdates[last.cell[1]] = [cell |-> last.cell]

\* a second acknowledgement for a row found no entry while one is left unanswered
C19_WitnessLateAck ==
    /\ last.op = "update_result"
    /\ inflight[last.uuid] = 0
    /\ pendingUpdates[last.uuid] = Null
    /\ flagged = {}
    /\ toasts = <<>>
    /\ \E u \in UUIDs \ {last.uuid} : pendingUpdates[u] # Null

\* C20: with a socket, when the channel delivers an update_result for every
\* watch_update emitted, the pending-update map eventually is empty and
\* stays empty once the user has stopped committing edits.
C20_PendingEventuallyEmpty ==
    socket => <>[](\A u \in UUIDs : pendingUpdates[u] = Null)

\* an entry has just been removed by the acknowledgement of the last
\* unanswered update, after the user's last gesture
C20_Witness ==
    /\ last.op = "update_result"
    /\ socket
    /\ gestures = MaxGestures
    /\ \A u \in UUIDs : pendingUpdates[u] = Null /\ inflight[u] = 0
    /\ flagged # {} \/ toasts # <<>>

TitleCells == {c \in Cells : c[2] = "title"}

\* no title cell shows the saving indicator for ever
SavingIsTransient ==
    \A c \in TitleCells : []<>(html[c] # SavingMarkup)

\* the timer of saveTitle leaves the cell of an active session as it is
TimerSparesActiveSession ==
    [][(last'.op = "timer" /\ activeEdit # Null /\ activeEdit.cell = last'.cell)
          => html'[last'.cell] = html[last'.cell]]_vars

\* C21: the saving indicator of a title cell is transient under every
\* interleaving, a re-activation of the cell before the timer fires included:
\* no cell shows it for ever; and the timer never replaces the content of a
\* cell that has an active edit session.
C21_SavingTransient ==
    SavingIsTransient /\ TimerSparesActiveSession

\* C22: one title edit session emits at most one watch_update and records
\* its pending entry at most once, whatever commit events fire for its input:
\* a step in which Enter or blur commits the session emits at most one
\* message and starts at most one timer, and it ends the session, so that
\* no later event of the input commits again.
C22_OneCommitPerSession ==
    [][(/\ last'.op \in {"enter", "blur"}
        /\ activeEdit # Null
        /\ activeEdit.field = "title") =>
          /\ Len(out') <= 1
          /\ Len(timers') <= Len(timers) + 1
          /\ inflight'[activeEdit.uuid] <= inflight[activeEdit.uuid] + 1
          /\ activeEdit' = Null
          /\ focus' # OnInput]_vars

\* one commit per session in a browser that fires no blur on an input
\* removed from the document
OneCommitWithoutBlurOnRemove ==
    [][~blurOnRemove => C22_OneCommitPerSession!1]_vars

\* the identifiers of a sequence of tags
TagSet(tags) == {tags[i] : i \in 1..Len(tags)}

\* C23: saving the tag editor with every checkbox as it was when the editor
\* opened leaves the row's tags as they were: the cached tags and, with a
\* socket, the emitted updates.tags hold exactly the identifiers the row had,
\* those that are not in the catalog included.
C23_UnchangedTagsKept ==
    [][(/\ last'.op = "saveTags"
        /\ activePopover # 0
        /\ last'.checked = ThePopover.form.checked) =>
          /\ TagSet(data'[last'.cell[1]].tags) = TagSet(data[last'.cell[1]].tags)
          /\ socket =>
                 /\ Len(out') = 1
                 /\ TagSet(out'[1].updates.tags) = TagSet(data[last'.cell[1]].tags)]_vars

\* unchanged checkboxes keep the tags of a row whose tags are all in the catalog
UnchangedCatalogTagsKept ==
    [][(activePopover # 0 /\ ThePopover.cell[2] = "tags"
        /\ TagSet(data[ThePopover.cell[1]].tags) \subseteq TagUuids)
          => C23_UnchangedTagsKept!1]_vars

====
